---- MODULE Spec2Model ----
(***************************************************************************)
(* Model of Scripts/status.py: the OLED status daemon's render loop, its   *)
(* rotation cursor, its metric collection and the SIGTERM/SIGINT handler.  *)
(*                                                                         *)
(* Numbers are fixed-point integers: the load average in hundredths, the   *)
(* temperature in milli-degrees (the raw reading; temp_value is raw/1000), *)
(* percentages as whole numbers.  Drawn text is the string the code draws. *)
(***************************************************************************)
EXTENDS Integers, Sequences, FiniteSets, TLC

\* ---------------------------------------------------------------- bounds
\* Signals delivered in one run of the process.
MaxSignals == 2
\* Network interfaces of the interface table that may be up.
MaxIfaces == 1
\* Iterations counted by the history counter ticks (it saturates there).
MaxTicks == 8

VARIABLES
    pc,              \* position of the main loop
    rotation_index,  \* cursor into network_info
    loop_counter,    \* iterations since the last rotation
    network_info,    \* list of <<kind, value>> facts of this iteration
    info,            \* <<info_type, info_value>>
    load_raw, load_value,
    temp_raw, temp_value,
    mem_parts, mem,      \* mem = <<mem_used_gb, mem_total_gb, mem_percent>>
    disk_parts, disk,    \* disk = <<disk_used, disk_total, disk_percent>>
    icon_keys,       \* load_icon, temp_icon, mem_icon, disk_icon
    font,            \* the text fonts: "unset" until they have loaded
    icon_font,       \* the icon fonts: "None" unless they have loaded
    ICONS_AVAILABLE, \* set once at startup
    config,          \* the configuration load_config() returned
    user_config,     \* history: what config.json held when it was read
    canvas,          \* the PIL image: the draw operations since the last clear
    buf,             \* the driver's frame buffer (kind of frame it holds)
    display,         \* what the panel shows (kind of frame last transferred)
    hstack,          \* signal handler activations, innermost last
    signals,         \* signals delivered so far
    exit_code,       \* -1 while the process runs
    src,             \* history: what each source returned in this iteration
    ticks,           \* history: iterations completed (saturating)
    offline_commit   \* history: how the handler's last transfer ended

vars == <<pc, rotation_index, loop_counter, network_info, info, load_raw,
          load_value, temp_raw, temp_value, mem_parts, mem, disk_parts, disk,
          icon_keys, font, icon_font, ICONS_AVAILABLE, config, user_config,
          canvas, buf, display, hstack, signals, exit_code, src, ticks,
          offline_commit>>

\* What startup sets and the loop and the handler only read.
startup == <<font, icon_font, ICONS_AVAILABLE, config, user_config>>

locals == <<network_info, info, load_raw, load_value, temp_raw, temp_value,
            mem_parts, mem, disk_parts, disk, icon_keys>>

\* ---------------------------------------------------------- configuration
\* A JSON object is a function from its keys to its values.
EmptyDict == [k \in {} |-> 0]

\* default_config (lines 27-65); glyphs are written as their code points.
default_config ==
    [display |-> [width |-> 128, height |-> 64, i2c_address |-> "0x3C",
                  rotation |-> 0],
     timing |-> [refresh_interval |-> 1, rotation_interval |-> 3],
     fonts |-> [text_font |-> "PixelOperator.ttf", text_size |-> 16,
                text_size_large |-> 24, icon_font |-> "la-solid-900.ttf",
                icon_size |-> 14],
     \* thresholds.load_warn is 2.0: in hundredths
     thresholds |-> [load_warn |-> 200, temp_warn |-> 70, mem_warn |-> 80,
                     disk_warn |-> 80],
     icons |-> [hostname |-> "f108", wifi |-> "f1eb", lan |-> "f6ff",
                offline |-> "f011", load_normal |-> "f0e7",
                load_warn |-> "f06d", temp_normal |-> "f2c9",
                temp_warn |-> "f06d", mem_normal |-> "f0ae",
                mem_warn |-> "f071", disk_normal |-> "f0a0",
                disk_warn |-> "f071"]]

\* What the module reads from config (lines 96, 104, 107, 153-158).
ROTATION_INTERVAL == config["timing"]["rotation_interval"]
LOAD_WARN == config["thresholds"]["load_warn"]
TEMP_WARN == config["thresholds"]["temp_warn"]
MEM_WARN == config["thresholds"]["mem_warn"]
DISK_WARN == config["thresholds"]["disk_warn"]
ICON_SIZE == config["fonts"]["icon_size"]
TEXT_SIZE_LARGE == config["fonts"]["text_size_large"]
ICONS == config["icons"]

\* subprocess.check_output("hostname") at startup (line 165)
HOSTNAME == "pi-test"

\* config.json as load_config() finds it: absent, not JSON, or an object.
MissingFile == [t |-> "missing", v |-> EmptyDict]
UnparsableFile == [t |-> "unparsable", v |-> EmptyDict]
JsonFile(d) == [t |-> "json", v |-> d]
NoFile == [t |-> "unread", v |-> EmptyDict]

\* default_config[key].update(user_config[key]) (line 74)
Update(d, u) ==
    [k \in DOMAIN d \cup DOMAIN u |-> IF k \in DOMAIN u THEN u[k] ELSE d[k]]

\* Fault variant of load_config: a section the user gives replaces the
\* default section whole.
load_config_replace(file) ==
    IF file.t # "json" THEN default_config
    ELSE [key \in DOMAIN default_config |->
            IF key \in DOMAIN file.v THEN file.v[key] ELSE default_config[key]]

\* load_config() (lines 22-83).  Every value of default_config is a dict, so
\* the else of line 75 is never taken.
load_config(file) ==
    IF file.t # "json" THEN default_config
    ELSE [key \in DOMAIN default_config |->
            IF key \in DOMAIN file.v
            THEN Update(default_config[key], file.v[key])
            ELSE default_config[key]]

\* The objects with some of the keys of vals, each key k with a value of
\* vals[k].
Dicts(vals) ==
    UNION {{f \in [D -> UNION {vals[k] : k \in D}] :
                \A k \in D : f[k] \in vals[k]} : D \in SUBSET DOMAIN vals}

\* The user configurations considered: a timing section with some of its
\* keys, a thresholds section with one of its keys and one key the defaults
\* do not have, a section the defaults do not have; each present or not.
UserSections ==
    [timing |-> Dicts([refresh_interval |-> {5},
                       rotation_interval |-> {0, 1, 2}]),
     thresholds |-> Dicts([temp_warn |-> {60}, cpu_warn |-> {90}]),
     logging |-> Dicts([level |-> {1}])]

ConfigFiles ==
    {MissingFile, UnparsableFile} \cup {JsonFile(d) : d \in Dicts(UserSections)}

\* ------------------------------------------------------- metric sources
\* What a subprocess.check_output call can do: raise (t = "raise"), return
\* output the parse rejects (t = "bad", for instance the empty string of a
\* missing thermal zone), or return a reading (t = "num").
Raise == [t |-> "raise", v |-> 0]
Bad == [t |-> "bad", v |-> 0]
Num(n) == [t |-> "num", v |-> n]

\* free | awk: "used total percent"; df -h / | awk: "used total percent%".
\* A field of df -h is <<digits, unit suffix>>.
NoParts == [t |-> "bad", v |-> <<"", "", 0>>]
Parts(used, total, pct) == [t |-> "num", v |-> <<used, total, pct>>]
RaiseParts == [t |-> "raise", v |-> <<"", "", 0>>]
NoDf == [t |-> "bad", v |-> <<(<<"", "">>), (<<"", "">>), 0>>]
Df(used, total, pct) == [t |-> "num", v |-> <<used, total, pct>>]
RaiseDf == [t |-> "raise", v |-> <<(<<"", "">>), (<<"", "">>), 0>>]

\* The interfaces `ip -4 -o addr show` can list, in enumeration order.
IfaceTable ==
    << <<"eth0", "192.168.1.10">>, <<"wlan0", "192.168.1.20">>,
       <<"docker0", "172.17.0.1">>, <<"enp3s0", "10.0.0.5">> >>

\* The output lines when exactly the interfaces with index in S are up.
EnumOf(S) ==
    LET F[i \in 0..Len(IfaceTable)] ==
            IF i = 0 THEN <<>>
            ELSE IF i \in S THEN Append(F[i - 1], IfaceTable[i]) ELSE F[i - 1]
    IN  F[Len(IfaceTable)]

\* interface.startswith(p) for p in skip_prefixes
SkipPrefix(name) == name \in {"docker0"}
\* interface.startswith('eth') or interface.startswith('en')
IsLan(name) == name \in {"eth0", "enp3s0"}
\* interface.startswith('wlan') or interface.startswith('wl')
IsWifi(name) == name \in {"wlan0"}

HostFact == <<"hostname", HOSTNAME>>

\* get_network_info(): the hostname, then one fact per physical interface;
\* a failing enumeration leaves the hostname alone.
NetworkInfoOf(out) ==
    LET lines == IF out.t = "raise" THEN <<>> ELSE out.lines
        F[i \in 0..Len(lines)] ==
            IF i = 0 THEN <<HostFact>>
            ELSE LET name == lines[i][1]
                     ip == lines[i][2]
                 IN  IF SkipPrefix(name) THEN F[i - 1]
                     ELSE IF IsLan(name) THEN Append(F[i - 1], <<"lan", ip>>)
                     ELSE IF IsWifi(name) THEN Append(F[i - 1], <<"wifi", ip>>)
                     ELSE F[i - 1]
    IN  F[Len(lines)]

\* Fault variant of RotateStep: rotates only once the counter exceeds the
\* interval.
RotateStep_gt(facts, idx, cnt) ==
    LET rotate == cnt > ROTATION_INTERVAL
        n == Len(facts)
        idx2 == IF rotate /\ n > 0 THEN (idx + 1) % n ELSE idx
        cnt2 == IF rotate /\ n > 0 THEN 0 ELSE cnt
        sel == IF n > 0 THEN idx2 % n ELSE 0
    IN  [raised |-> (rotate /\ n = 0) \/ (n > 0 /\ sel \notin 0..(n - 1)),
         rotated |-> rotate /\ n > 0,
         idx |-> idx2,
         cnt |-> cnt2,
         sel |-> IF n > 0 THEN sel ELSE 0,
         info |-> IF n = 0 THEN <<"hostname", "No network">>
                  ELSE IF sel \in 0..(n - 1) THEN facts[sel + 1]
                  ELSE <<"", "">>]

\* Fault variant of RotateStep: the counter is not reset when the cursor
\* advances.
RotateStep_no_reset(facts, idx, cnt) ==
    LET rotate == cnt >= ROTATION_INTERVAL
        n == Len(facts)
        idx2 == IF rotate /\ n > 0 THEN (idx + 1) % n ELSE idx
        cnt2 == IF rotate /\ n > 0 THEN cnt ELSE cnt
        sel == IF n > 0 THEN idx2 % n ELSE 0
    IN  [raised |-> (rotate /\ n = 0) \/ (n > 0 /\ sel \notin 0..(n - 1)),
         rotated |-> rotate /\ n > 0,
         idx |-> idx2,
         cnt |-> cnt2,
         sel |-> IF n > 0 THEN sel ELSE 0,
         info |-> IF n = 0 THEN <<"hostname", "No network">>
                  ELSE IF sel \in 0..(n - 1) THEN facts[sel + 1]
                  ELSE <<"", "">>]

\* Fault variant of RotateStep: the fact is selected with the cursor as it
\* is, not reduced modulo the length of this iteration's list.
RotateStep_no_remod(facts, idx, cnt) ==
    LET rotate == cnt >= ROTATION_INTERVAL
        n == Len(facts)
        idx2 == IF rotate /\ n > 0 THEN (idx + 1) % n ELSE idx
        cnt2 == IF rotate /\ n > 0 THEN 0 ELSE cnt
        sel == idx2
    IN  [raised |-> (rotate /\ n = 0) \/ (n > 0 /\ sel \notin 0..(n - 1)),
         rotated |-> rotate /\ n > 0,
         idx |-> idx2,
         cnt |-> cnt2,
         sel |-> IF n > 0 THEN sel ELSE 0,
         info |-> IF n = 0 THEN <<"hostname", "No network">>
                  ELSE IF sel \in 0..(n - 1) THEN facts[sel + 1]
                  ELSE <<"", "">>]

\* ------------------------------------------------------- rotation step
\* Lines 261-269 on (network_info, rotation_index, loop_counter): whether
\* the cursor advanced, the new cursor, the new counter, the index used to
\* select the fact and the fact, and whether the step raised (the modulo by
\* the length of an empty list, or an index outside the list).
RotateStep(facts, idx, cnt) ==
    LET rotate == cnt >= ROTATION_INTERVAL
        n == Len(facts)
        idx2 == IF rotate /\ n > 0 THEN (idx + 1) % n ELSE idx
        cnt2 == IF rotate /\ n > 0 THEN 0 ELSE cnt
        sel == IF n > 0 THEN idx2 % n ELSE 0
    IN  [raised |-> (rotate /\ n = 0) \/ (n > 0 /\ sel \notin 0..(n - 1)),
         rotated |-> rotate /\ n > 0,
         idx |-> idx2,
         cnt |-> cnt2,
         sel |-> IF n > 0 THEN sel ELSE 0,
         info |-> IF n = 0 THEN <<"hostname", "No network">>
                  ELSE IF sel \in 0..(n - 1) THEN facts[sel + 1]
                  ELSE <<"", "">>]

\* ------------------------------------------------------------ formatting
Digit2(n) == IF n < 10 THEN "0" \o ToString(n) ELSE ToString(n)
\* f"{load_value:.2f}" of a value in hundredths
Fmt2f(h) == ToString(h \div 100) \o "." \o Digit2(h % 100)
\* round-half-even of m / 1000
Round1000(m) ==
    LET q == m \div 1000
        r == m % 1000
    IN  IF r > 500 \/ (r = 500 /\ q % 2 = 1) THEN q + 1 ELSE q
\* f"{temp_value:.0f}C", temp_value = float(temp_raw) / 1000
TempStr(milli) == ToString(Round1000(milli)) \o "C"
\* f"{mem_used_gb}/{mem_total_gb}GB {mem_percent:.0f}%"
UsageStr(m) == m[1] \o "/" \o m[2] \o "GB " \o ToString(m[3]) \o "%"
\* disk_parts[i].rstrip('G')
RStripG(f) == IF f[2] = "G" THEN f[1] ELSE f[1] \o f[2]

\* ------------------------------------------------------------- drawing
\* ICON_WIDTH: 0 at line 110, icon_size + 2 once the icon font has loaded.
IconWidth(avail) == IF avail THEN ICON_SIZE + 2 ELSE 0
IconWidthLarge == TEXT_SIZE_LARGE + 2

Op(x, y, fnt, s) == [x |-> x, y |-> y, font |-> fnt, s |-> s]

\* Fault variant of get_icon_for_value: a value at the threshold is normal.
get_icon_for_value_gt(base_name, value, threshold) ==
    IF value > threshold THEN base_name \o "_warn" ELSE base_name \o "_normal"

\* get_icon_for_value(base_name, value, threshold)
get_icon_for_value(base_name, value, threshold) ==
    IF value >= threshold THEN base_name \o "_warn" ELSE base_name \o "_normal"

\* draw_icon(x, y, icon_key): the canvas after it, and the width it returns
draw_icon(cv, avail, x, y, icon_key) ==
    IF avail /\ icon_key \in DOMAIN ICONS
    THEN [cv |-> Append(cv, Op(x, y, "icon_font", ICONS[icon_key])),
          w |-> IconWidth(avail)]
    ELSE [cv |-> cv, w |-> 0]

\* Fault variant of IconLine: the text is always placed one icon width in,
\* whether or not an icon was drawn.
IconLine_fixed_offset(cv, avail, y, key, text) ==
    LET d == IF avail THEN draw_icon(cv, avail, 0, y, key)
             ELSE [cv |-> cv, w |-> 0]
    IN  Append(d.cv, Op(ICON_SIZE + 2, y, "font", text))

\* A line with an optional leading icon: x = 0; if ICONS_AVAILABLE:
\* x += draw_icon(x, y, key); draw.text((x, y), text)
IconLine(cv, avail, y, key, text) ==
    LET d == IF avail THEN draw_icon(cv, avail, 0, y, key)
             ELSE [cv |-> cv, w |-> 0]
    IN  Append(d.cv, Op(0 + d.w, y, "font", text))

\* The temperature field on the right of line 2 (lines 329-337)
TempField(cv, avail, key, text) ==
    IF avail
    THEN Append(draw_icon(cv, avail, 75, 16, key).cv,
                Op(75 + IconWidth(avail), 16, "font", text))
    ELSE Append(cv, Op(80, 16, "font", text))

\* load_icon, temp_icon, mem_icon, disk_icon (lines 323, 329, 341, 349)
IconKeysOf(lv, tv, m, d) ==
    [load |-> get_icon_for_value("load", lv, LOAD_WARN),
     temp |-> get_icon_for_value("temp", tv, TEMP_WARN * 1000),
     mem |-> get_icon_for_value("mem", m[3], MEM_WARN),
     disk |-> get_icon_for_value("disk", d[3], DISK_WARN)]

\* Lines 315-353: the four lines drawn onto the canvas cv.
ComposeFrame(cv, avail, inf, lv, tv, m, d) ==
    LET k == IconKeysOf(lv, tv, m, d)
        l1 == IconLine(cv, avail, 0, inf[1], inf[2])
        l2 == IconLine(l1, avail, 16, k.load, Fmt2f(lv))
        l2t == TempField(l2, avail, k.temp, TempStr(tv))
        l3 == IconLine(l2t, avail, 32, k.mem, UsageStr(m))
    IN  IconLine(l3, avail, 48, k.disk, UsageStr(d))

\* show_offline_screen() up to the commit: clear, hostname, OFFLINE
OfflineFrame(avail) ==
    IF avail
    THEN << Op(10, 8, "font", HOSTNAME),
            Op(10, 32, "icon_font_large", ICONS["offline"]),
            Op(10 + IconWidthLarge, 32, "font_large", "OFFLINE") >>
    ELSE << Op(10, 8, "font", HOSTNAME),
            Op(10, 32, "font_large", "OFFLINE") >>

\* What a frame buffer shows: nothing, the offline screen, the four metric
\* lines (five text fields, each with its icon or none with an icon), or
\* anything else (content of more than one frame).
IsGlyph(o) == o.font \in {"icon_font", "icon_font_large"}
MetricLineYs == {0, 16, 32, 48}
IsMetricsFrame(cv) ==
    LET texts == {i \in 1..Len(cv) : cv[i].font = "font"}
        glyphs == {i \in 1..Len(cv) : cv[i].font = "icon_font"}
    IN  /\ \A i \in 1..Len(cv) : cv[i].font \in {"font", "icon_font"}
        /\ Cardinality(texts) = 5
        /\ Cardinality(glyphs) \in {0, 5}
        /\ \A y \in MetricLineYs : \E i \in texts : cv[i].y = y
        /\ \A i \in texts : cv[i].y \in MetricLineYs
FrameKind(cv) ==
    IF cv = <<>> THEN "blank"
    ELSE IF \E a \in BOOLEAN : cv = OfflineFrame(a) THEN "offline"
    ELSE IF IsMetricsFrame(cv) THEN "metrics"
    ELSE "ghosted"

\* ---------------------------------------------------------- environment
\* What the sources and the device may do in a specification, and whether
\* the specification counts the iterations in ticks.
NetOutputs(S) ==
    {[t |-> "ok", lines |-> EnumOf(up)] : up \in S}
        \cup {[t |-> "raise", lines |-> <<>>]}

\* The environment of the whole program: every source may raise, the
\* thermal zone may be missing, the bus may fail.
FullEnv ==
    [net |-> NetOutputs(SUBSET (1..MaxIfaces)),
     load |-> {Raise, Num(42)},
     temp |-> {Raise, Bad, Num(45000)},
     mem |-> {RaiseParts, Parts("1.2", "4.0", 30)},
     disk |-> {RaiseDf, Df(<<"5", "G">>, <<"32", "G">>, 16)},
     dev |-> {"ok", "fail"},
     count |-> FALSE]

\* The environment of the loop alone: every source may raise or return
\* output that does not parse, with readings below, at and above the
\* warning thresholds.
TickEnv ==
    [net |-> NetOutputs(SUBSET (1..MaxIfaces)),
     load |-> {Raise, Bad, Num(LOAD_WARN - 1), Num(LOAD_WARN), Num(LOAD_WARN + 1)},
     temp |-> {Raise, Bad, Num(TEMP_WARN * 1000 - 1), Num(TEMP_WARN * 1000),
               Num(TEMP_WARN * 1000 + 1)},
     mem |-> {RaiseParts, NoParts, Parts("3.1", "4.0", MEM_WARN - 1),
              Parts("3.2", "4.0", MEM_WARN)},
     disk |-> {RaiseDf, NoDf, Df(<<"25", "G">>, <<"32", "G">>, DISK_WARN - 1),
               Df(<<"26", "G">>, <<"32", "G">>, DISK_WARN),
               Df(<<"900", "M">>, <<"1.0", "G">>, DISK_WARN + 8)},
     dev |-> {"ok", "fail"},
     count |-> FALSE]

\* The environment of the rotation scenario: the four facts of the interface
\* table in every iteration, no failure, iterations counted.
RotEnv ==
    [net |-> {[t |-> "ok", lines |-> EnumOf(1..Len(IfaceTable))]},
     load |-> {Num(42)},
     temp |-> {Num(45000)},
     mem |-> {Parts("1.2", "4.0", 30)},
     disk |-> {Df(<<"5", "G">>, <<"32", "G">>, 16)},
     dev |-> {"ok"},
     count |-> TRUE]

\* The environment of hot-plugged interfaces: in each iteration any of the
\* interfaces of the table are up, or the enumeration raises; nothing else
\* fails.
NetEnv ==
    [net |-> NetOutputs(SUBSET (1..Len(IfaceTable))),
     load |-> {Num(42)},
     temp |-> {Num(45000)},
     mem |-> {Parts("1.2", "4.0", 30)},
     disk |-> {Df(<<"5", "G">>, <<"32", "G">>, 16)},
     dev |-> {"ok"},
     count |-> FALSE]

\* The environment of a run from the first statement: any of the
\* configuration files, either font may fail to load, the load average and
\* the interface enumeration may raise, the bus may fail.
BootEnv ==
    [files |-> ConfigFiles,
     text_font |-> {"ok", "fail"},
     icon_font |-> {"ok", "fail"},
     net |-> NetOutputs({1..MaxIfaces}),
     load |-> {Raise, Num(42)},
     temp |-> {Num(45000)},
     mem |-> {Parts("1.2", "4.0", 30)},
     disk |-> {Df(<<"5", "G">>, <<"32", "G">>, 16)},
     dev |-> {"ok", "fail"},
     count |-> FALSE]

\* ------------------------------------------------------ initial state
NoOut == [t |-> "none", v |-> 0]
NoOutParts == [t |-> "none", v |-> <<"", "", 0>>]
NoOutDf == [t |-> "none", v |-> <<(<<"", "">>), (<<"", "">>), 0>>]
NoKeys == [load |-> "", temp |-> "", mem |-> "", disk |-> ""]
NoSrc == [cnt0 |-> 0, net |-> <<>>, rot |-> FALSE, sel |-> 0, load |-> NoOut,
          temp |-> NoOut, mem |-> NoOutParts, disk |-> NoOutDf, dev |-> "none"]
ZeroUsage == <<"0", "0", 0>>

\* The locals of an iteration are written before they are read in every
\* iteration; they are put back to these values when the iteration ends.
LocalsInit ==
    /\ network_info = <<>>
    /\ info = <<"", "">>
    /\ load_raw = NoOut
    /\ load_value = 0
    /\ temp_raw = NoOut
    /\ temp_value = 0
    /\ mem_parts = NoOutParts
    /\ mem = ZeroUsage
    /\ disk_parts = NoOutDf
    /\ disk = ZeroUsage
    /\ icon_keys = NoKeys

LocalsReset ==
    /\ network_info' = <<>>
    /\ info' = <<"", "">>
    /\ load_raw' = NoOut
    /\ load_value' = 0
    /\ temp_raw' = NoOut
    /\ temp_value' = 0
    /\ mem_parts' = NoOutParts
    /\ mem' = ZeroUsage
    /\ disk_parts' = NoOutDf
    /\ disk' = ZeroUsage
    /\ icon_keys' = NoKeys

\* The state when the loop is entered (line 252): the icon font has loaded
\* or not, the handlers are registered, the panel has been cleared.
Init ==
    /\ pc = "clear"
    /\ rotation_index = 0
    /\ loop_counter = 0
    /\ LocalsInit
    /\ font = "loaded"
    /\ ICONS_AVAILABLE \in BOOLEAN
    /\ icon_font = (IF ICONS_AVAILABLE THEN "loaded" ELSE "None")
    /\ config = default_config
    /\ user_config = MissingFile
    /\ canvas = <<>>
    /\ buf = "blank"
    /\ display = "blank"
    /\ hstack = <<>>
    /\ signals = 0
    /\ exit_code = -1
    /\ src = NoSrc
    /\ ticks = 0
    /\ offline_commit = "none"

\* ------------------------------------------------------------- startup
\* The state before the first statement: nothing loaded, the panel blank
\* after its reset.
InitBoot ==
    /\ pc = "load_config"
    /\ rotation_index = 0
    /\ loop_counter = 0
    /\ LocalsInit
    /\ font = "unset"
    /\ icon_font = "None"
    /\ ICONS_AVAILABLE = FALSE
    /\ config = default_config
    /\ user_config = NoFile
    /\ canvas = <<>>
    /\ buf = "blank"
    /\ display = "blank"
    /\ hstack = <<>>
    /\ signals = 0
    /\ exit_code = -1
    /\ src = NoSrc
    /\ ticks = 0
    /\ offline_commit = "none"

\* config = load_config() (line 86)
LoadConfig(env) ==
    /\ pc = "load_config"
    /\ \E f \in env.files :
        /\ user_config' = f
        /\ config' = load_config(f)
    /\ pc' = "load_font"
    /\ UNCHANGED <<rotation_index, loop_counter, locals, font, icon_font,
                   ICONS_AVAILABLE, canvas, buf, display, hstack, signals,
                   exit_code, src, ticks, offline_commit>>

\* lines 139-146: the text font in both sizes, or sys.exit(1)
LoadFont(env) ==
    /\ pc = "load_font"
    /\ \E r \in env.text_font :
        IF r = "ok"
        THEN /\ font' = "loaded"
             /\ pc' = "load_icon_font"
             /\ UNCHANGED exit_code
        ELSE /\ pc' = "exited"
             /\ exit_code' = 1
             /\ UNCHANGED font
    /\ UNCHANGED <<rotation_index, loop_counter, locals, icon_font,
                   ICONS_AVAILABLE, config, user_config, canvas, buf, display,
                   hstack, signals, src, ticks, offline_commit>>

\* Fault variant of LoadIconFont: a missing icon font ends the process as a
\* missing text font does.
LoadIconFont_fatal(env) ==
    /\ pc = "load_icon_font"
    /\ \E r \in env.icon_font :
        IF r = "ok"
        THEN /\ icon_font' = "loaded"
             /\ ICONS_AVAILABLE' = TRUE
             /\ pc' = "startup_clear"
             /\ UNCHANGED exit_code
        ELSE /\ pc' = "exited"
             /\ exit_code' = 1
             /\ UNCHANGED <<icon_font, ICONS_AVAILABLE>>
    /\ UNCHANGED <<rotation_index, loop_counter, locals, font, config,
                   user_config, canvas, buf, display, hstack, signals,
                   src, ticks, offline_commit>>

\* lines 148-161: the icon font in both sizes, or no icons
LoadIconFont(env) ==
    /\ pc = "load_icon_font"
    /\ \E r \in env.icon_font :
        /\ icon_font' = (IF r = "ok" THEN "loaded" ELSE "None")
        /\ ICONS_AVAILABLE' = (r = "ok")
    /\ pc' = "startup_clear"
    /\ UNCHANGED <<rotation_index, loop_counter, locals, font, config,
                   user_config, canvas, buf, display, hstack, signals,
                   exit_code, src, ticks, offline_commit>>

\* oled.fill(0); oled.show() (lines 245-246); an error of the bus is caught
\* by nothing and ends the process with status 1
StartupClear(env) ==
    /\ pc = "startup_clear"
    /\ \E r \in env.dev :
        IF r = "ok"
        THEN /\ buf' = "blank"
             /\ display' = "blank"
             /\ pc' = "clear"
             /\ UNCHANGED exit_code
        ELSE /\ buf' = "blank"
             /\ pc' = "exited"
             /\ exit_code' = 1
             /\ UNCHANGED display
    /\ UNCHANGED <<rotation_index, loop_counter, locals, startup, canvas,
                   hstack, signals, src, ticks, offline_commit>>

Startup(env) ==
    \/ LoadConfig(env)
    \/ LoadFont(env)
    \/ LoadIconFont(env)
    \/ StartupClear(env)

\* ------------------------------------------------------------ main loop
\* The main loop runs while no handler is active and the process lives.
MainRuns == pc # "exited" /\ hstack = <<>>

\* Fault variant of TickFails: the failure leaves the loop and the process
\* ends with a traceback.
TickFails_escapes ==
    /\ pc' = "exited"
    /\ exit_code' = 1
    /\ UNCHANGED <<rotation_index, loop_counter, startup, canvas, buf,
                   display, hstack, signals, ticks, offline_commit>>

\* Fault variant of TickFails: a failed iteration counts towards the
\* rotation interval.
TickFails_counts ==
    /\ pc' = "sleep"
    /\ loop_counter' = loop_counter + 1
    /\ UNCHANGED <<rotation_index, startup, canvas, buf,
                   display, hstack, signals, exit_code, ticks, offline_commit>>

\* Fault variant of TickFails: a failed iteration sends the canvas as it is
\* to the panel.
TickFails_commits ==
    /\ pc' = "sleep"
    /\ buf' = FrameKind(canvas)
    /\ display' = FrameKind(canvas)
    /\ UNCHANGED <<rotation_index, loop_counter, startup, canvas,
                   hstack, signals, exit_code, ticks, offline_commit>>

\* except Exception: pass (lines 361-363), then the sleep
TickFails ==
    /\ pc' = "sleep"
    /\ UNCHANGED <<rotation_index, loop_counter, startup, canvas, buf,
                   display, hstack, signals, exit_code, ticks, offline_commit>>

\* line 255
Clear ==
    /\ MainRuns /\ pc = "clear"
    /\ canvas' = <<>>
    /\ src' = [src EXCEPT !.cnt0 = loop_counter]
    /\ pc' = "netinfo"
    /\ UNCHANGED <<rotation_index, loop_counter, locals, startup, buf,
                   display, hstack, signals, exit_code, ticks, offline_commit>>

\* line 258: get_network_info() returns
GetNetworkInfo(env) ==
    /\ MainRuns /\ pc = "netinfo"
    /\ \E out \in env.net :
        /\ network_info' = NetworkInfoOf(out)
        /\ src' = [src EXCEPT !.net = NetworkInfoOf(out)]
    /\ pc' = "rotate"
    /\ UNCHANGED <<rotation_index, loop_counter, info, load_raw, load_value,
                   temp_raw, temp_value, mem_parts, mem, disk_parts, disk,
                   icon_keys, startup, canvas, buf, display, hstack,
                   signals, exit_code, ticks, offline_commit>>

\* lines 261-269
Rotate ==
    /\ MainRuns /\ pc = "rotate"
    /\ LET r == RotateStep(network_info, rotation_index, loop_counter)
       IN  IF r.raised
           THEN TickFails /\ UNCHANGED <<locals, src>>
           ELSE /\ rotation_index' = r.idx
                /\ loop_counter' = r.cnt
                /\ info' = r.info
                /\ src' = [src EXCEPT !.rot = r.rotated, !.sel = r.sel]
                /\ pc' = "load"
                /\ UNCHANGED <<network_info, load_raw, load_value, temp_raw,
                               temp_value, mem_parts, mem, disk_parts, disk,
                               icon_keys, startup, canvas, buf,
                               display, hstack, signals, exit_code,
                               ticks, offline_commit>>

\* line 272
GetLoad(env) ==
    /\ MainRuns /\ pc = "load"
    /\ \E o \in env.load :
        /\ src' = [src EXCEPT !.load = o]
        /\ IF o.t = "raise"
           THEN TickFails /\ UNCHANGED locals
           ELSE /\ load_raw' = o
                /\ pc' = "load_parse"
                /\ UNCHANGED <<rotation_index, loop_counter, network_info, info,
                               load_value, temp_raw, temp_value, mem_parts, mem,
                               disk_parts, disk, icon_keys, startup,
                               canvas, buf, display, hstack, signals, exit_code,
                               ticks, offline_commit>>

\* float(load_raw), or 0.0 (lines 273-276)
LoadValueOf(raw) == IF raw.t = "num" THEN raw.v ELSE 0

ParseLoad ==
    /\ MainRuns /\ pc = "load_parse"
    /\ load_value' = LoadValueOf(load_raw)
    /\ pc' = "temp"
    /\ UNCHANGED <<rotation_index, loop_counter, network_info, info, load_raw,
                   temp_raw, temp_value, mem_parts, mem, disk_parts, disk,
                   icon_keys, startup, canvas, buf, display, hstack,
                   signals, exit_code, src, ticks, offline_commit>>

\* line 279
GetTemp(env) ==
    /\ MainRuns /\ pc = "temp"
    /\ \E o \in env.temp :
        /\ src' = [src EXCEPT !.temp = o]
        /\ IF o.t = "raise"
           THEN TickFails /\ UNCHANGED locals
           ELSE /\ temp_raw' = o
                /\ pc' = "temp_parse"
                /\ UNCHANGED <<rotation_index, loop_counter, network_info, info,
                               load_raw, load_value, temp_value, mem_parts, mem,
                               disk_parts, disk, icon_keys, startup,
                               canvas, buf, display, hstack, signals, exit_code,
                               ticks, offline_commit>>

\* float(temp_raw) / 1000 kept in milli-degrees, or 0.0 (lines 280-283)
TempValueOf(raw) == IF raw.t = "num" THEN raw.v ELSE 0

\* Fault variant of ParseTemp: no inner try, so output that does not parse
\* ends the iteration in the outer except.
ParseTemp_no_inner_try ==
    /\ MainRuns /\ pc = "temp_parse"
    /\ IF temp_raw.t = "num"
       THEN /\ temp_value' = temp_raw.v
            /\ pc' = "mem"
            /\ UNCHANGED <<rotation_index, loop_counter, network_info, info,
                           load_raw, load_value, temp_raw, mem_parts, mem,
                           disk_parts, disk, icon_keys, startup, canvas,
                           buf, display, hstack, signals, exit_code, src,
                           ticks, offline_commit>>
       ELSE TickFails /\ UNCHANGED <<locals, src>>

ParseTemp ==
    /\ MainRuns /\ pc = "temp_parse"
    /\ temp_value' = TempValueOf(temp_raw)
    /\ pc' = "mem"
    /\ UNCHANGED <<rotation_index, loop_counter, network_info, info, load_raw,
                   load_value, temp_raw, mem_parts, mem, disk_parts, disk,
                   icon_keys, startup, canvas, buf, display, hstack,
                   signals, exit_code, src, ticks, offline_commit>>

\* lines 286-287
GetMem(env) ==
    /\ MainRuns /\ pc = "mem"
    /\ \E o \in env.mem :
        /\ src' = [src EXCEPT !.mem = o]
        /\ IF o.t = "raise"
           THEN TickFails /\ UNCHANGED locals
           ELSE /\ mem_parts' = o
                /\ pc' = "mem_parse"
                /\ UNCHANGED <<rotation_index, loop_counter, network_info, info,
                               load_raw, load_value, temp_raw, temp_value, mem,
                               disk_parts, disk, icon_keys, startup,
                               canvas, buf, display, hstack, signals, exit_code,
                               ticks, offline_commit>>

\* lines 288-295
MemOf(parts) == IF parts.t = "num" THEN parts.v ELSE ZeroUsage

ParseMem ==
    /\ MainRuns /\ pc = "mem_parse"
    /\ mem' = MemOf(mem_parts)
    /\ pc' = "disk"
    /\ UNCHANGED <<rotation_index, loop_counter, network_info, info, load_raw,
                   load_value, temp_raw, temp_value, mem_parts, disk_parts, disk,
                   icon_keys, startup, canvas, buf, display, hstack,
                   signals, exit_code, src, ticks, offline_commit>>

\* lines 298-299
GetDisk(env) ==
    /\ MainRuns /\ pc = "disk"
    /\ \E o \in env.disk :
        /\ src' = [src EXCEPT !.disk = o]
        /\ IF o.t = "raise"
           THEN TickFails /\ UNCHANGED locals
           ELSE /\ disk_parts' = o
                /\ pc' = "disk_parse"
                /\ UNCHANGED <<rotation_index, loop_counter, network_info, info,
                               load_raw, load_value, temp_raw, temp_value,
                               mem_parts, mem, disk, icon_keys, startup,
                               canvas, buf, display, hstack, signals, exit_code,
                               ticks, offline_commit>>

\* lines 300-307
DiskOf(parts) ==
    IF parts.t = "num"
    THEN <<RStripG(parts.v[1]), RStripG(parts.v[2]), parts.v[3]>>
    ELSE ZeroUsage

ParseDisk ==
    /\ MainRuns /\ pc = "disk_parse"
    /\ disk' = DiskOf(disk_parts)
    /\ pc' = "compose"
    /\ UNCHANGED <<rotation_index, loop_counter, network_info, info, load_raw,
                   load_value, temp_raw, temp_value, mem_parts, mem, disk_parts,
                   icon_keys, startup, canvas, buf, display, hstack,
                   signals, exit_code, src, ticks, offline_commit>>

\* lines 309-353
Compose ==
    /\ MainRuns /\ pc = "compose"
    /\ canvas' = ComposeFrame(canvas, ICONS_AVAILABLE, info, load_value,
                              temp_value, mem, disk)
    /\ icon_keys' = IconKeysOf(load_value, temp_value, mem, disk)
    /\ pc' = "commit"
    /\ UNCHANGED <<rotation_index, loop_counter, network_info, info, load_raw,
                   load_value, temp_raw, temp_value, mem_parts, mem, disk_parts,
                   disk, startup, buf, display, hstack, signals,
                   exit_code, src, ticks, offline_commit>>

\* oled.image(image) and the start of oled.show() (lines 356-357)
CommitBegin ==
    /\ MainRuns /\ pc = "commit"
    /\ buf' = FrameKind(canvas)
    /\ pc' = "show_io"
    /\ UNCHANGED <<rotation_index, loop_counter, locals, startup,
                   canvas, display, hstack, signals, exit_code, src,
                   ticks, offline_commit>>

\* oled.show() ends: the transfer is done, or the bus raised; then
\* loop_counter += 1 (line 359)
CommitEnd(env) ==
    /\ MainRuns /\ pc = "show_io"
    /\ \E r \in env.dev :
        /\ src' = [src EXCEPT !.dev = r]
        /\ IF r = "ok"
           THEN /\ display' = buf
                /\ loop_counter' = loop_counter + 1
                /\ pc' = "sleep"
                /\ UNCHANGED <<rotation_index, startup, canvas, buf,
                               hstack, signals, exit_code,
                               ticks, offline_commit>>
           ELSE TickFails
    /\ UNCHANGED locals

\* time.sleep(LOOPTIME) returns (line 365): the iteration is over
Sleep(env) ==
    /\ MainRuns /\ pc = "sleep"
    /\ pc' = "clear"
    /\ LocalsReset
    /\ src' = NoSrc
    /\ ticks' = IF env.count /\ ticks < MaxTicks THEN ticks + 1 ELSE ticks
    /\ UNCHANGED <<rotation_index, loop_counter, startup, canvas, buf,
                   display, hstack, signals, exit_code, offline_commit>>

MainLoop(env) ==
    \/ Clear
    \/ GetNetworkInfo(env)
    \/ Rotate
    \/ GetLoad(env)
    \/ ParseLoad
    \/ GetTemp(env)
    \/ ParseTemp
    \/ GetMem(env)
    \/ ParseMem
    \/ GetDisk(env)
    \/ ParseDisk
    \/ Compose
    \/ CommitBegin
    \/ CommitEnd(env)
    \/ Sleep(env)

\* -------------------------------------------------------- signal handler
\* A handler activation is at "h_draw" (in show_offline_screen, before the
\* transfer), at "h_io" (in oled.show()) or at "h_exit" (at sys.exit(0),
\* after the try of signal_handler).  It runs on the main thread: whatever it
\* interrupted waits until it returns or raises.
Top == hstack[Len(hstack)]
Below == SubSeq(hstack, 1, Len(hstack) - 1)
SetTop(p) == hstack' = [hstack EXCEPT ![Len(hstack)] = p]

\* A signal is delivered (SIGTERM or SIGINT, lines 241-242): the handler
\* starts on top of whatever runs.
Signal ==
    /\ pc # "exited"
    /\ signals < MaxSignals
    /\ signals' = signals + 1
    /\ hstack' = Append(hstack, "h_draw")
    /\ UNCHANGED <<pc, rotation_index, loop_counter, locals, startup,
                   canvas, buf, display, exit_code, src, ticks, offline_commit>>

\* Fault variant of HandlerDraw: the offline screen is drawn without the
\* clearing rectangle.
HandlerDraw_no_clear ==
    /\ pc # "exited" /\ hstack # <<>> /\ Top = "h_draw"
    /\ canvas' = canvas \o OfflineFrame(ICONS_AVAILABLE)
    /\ buf' = FrameKind(canvas \o OfflineFrame(ICONS_AVAILABLE))
    /\ SetTop("h_io")
    /\ UNCHANGED <<pc, rotation_index, loop_counter, locals, startup,
                   display, signals, exit_code, src, ticks, offline_commit>>

\* show_offline_screen(): lines 217-229 and the start of oled.show()
HandlerDraw ==
    /\ pc # "exited" /\ hstack # <<>> /\ Top = "h_draw"
    /\ canvas' = OfflineFrame(ICONS_AVAILABLE)
    /\ buf' = FrameKind(OfflineFrame(ICONS_AVAILABLE))
    /\ SetTop("h_io")
    /\ UNCHANGED <<pc, rotation_index, loop_counter, locals, startup,
                   display, signals, exit_code, src, ticks, offline_commit>>

\* oled.show() ends in the handler (line 230); a failure is swallowed by
\* the handler's except (lines 236-237)
HandlerCommitEnd(env) ==
    /\ pc # "exited" /\ hstack # <<>> /\ Top = "h_io"
    /\ \E r \in env.dev :
        /\ display' = IF r = "ok" THEN buf ELSE display
        /\ offline_commit' = r
    /\ SetTop("h_exit")
    /\ UNCHANGED <<pc, rotation_index, loop_counter, locals, startup,
                   canvas, buf, signals, exit_code, src, ticks>>

\* sys.exit(0) raises SystemExit in what the handler interrupted.  An
\* interrupted handler at its own sys.exit(0) lets it through; one inside its
\* try swallows it (bare except, line 236) and goes on to its sys.exit(0).
RECURSIVE Unwind(_)
Unwind(st) ==
    IF st = <<>> THEN <<>>
    ELSE IF st[Len(st)] = "h_exit" THEN Unwind(SubSeq(st, 1, Len(st) - 1))
    ELSE [st EXCEPT ![Len(st)] = "h_exit"]

\* The positions of the main loop inside a try with a bare except: the
\* enumeration of get_network_info (lines 177-198) and the four parses
\* (lines 273-276, 280-283, 288-295, 300-307).
BareExcept == {"netinfo", "load_parse", "temp_parse", "mem_parse", "disk_parse"}

\* line 238 reached in a handler that interrupted another handler
HandlerExitNested ==
    /\ pc # "exited" /\ hstack # <<>> /\ Top = "h_exit"
    /\ Unwind(Below) # <<>>
    /\ hstack' = Unwind(Below)
    /\ UNCHANGED <<pc, rotation_index, loop_counter, locals, startup,
                   canvas, buf, display, signals, exit_code, src,
                   ticks, offline_commit>>

\* SystemExit reaches the main loop outside the bare excepts: `except
\* Exception` does not catch it and the process ends with status 0
HandlerExitProcess ==
    /\ pc # "exited" /\ hstack # <<>> /\ Top = "h_exit"
    /\ Unwind(Below) = <<>>
    /\ pc \notin BareExcept
    /\ hstack' = <<>>
    /\ pc' = "exited"
    /\ exit_code' = 0
    /\ UNCHANGED <<rotation_index, loop_counter, locals, startup,
                   canvas, buf, display, signals, src, ticks, offline_commit>>

\* SystemExit reaches the main loop inside a bare except, which swallows
\* it: the except clause runs and the loop goes on
HandlerExitSwallowed ==
    /\ pc # "exited" /\ hstack # <<>> /\ Top = "h_exit"
    /\ Unwind(Below) = <<>>
    /\ pc \in BareExcept
    /\ hstack' = <<>>
    /\ network_info' = IF pc = "netinfo" THEN <<HostFact>> ELSE network_info
    /\ load_value' = IF pc = "load_parse" THEN 0 ELSE load_value
    /\ temp_value' = IF pc = "temp_parse" THEN 0 ELSE temp_value
    /\ mem' = IF pc = "mem_parse" THEN ZeroUsage ELSE mem
    /\ disk' = IF pc = "disk_parse" THEN ZeroUsage ELSE disk
    /\ pc' = CASE pc = "netinfo" -> "rotate"
               [] pc = "load_parse" -> "temp"
               [] pc = "temp_parse" -> "mem"
               [] pc = "mem_parse" -> "disk"
               [] OTHER -> "compose"
    /\ UNCHANGED <<rotation_index, loop_counter, info, load_raw, temp_raw,
                   mem_parts, disk_parts, icon_keys, startup, canvas,
                   buf, display, signals, exit_code, src,
                   ticks, offline_commit>>

Handler(env) ==
    \/ HandlerDraw
    \/ HandlerCommitEnd(env)
    \/ HandlerExitNested
    \/ HandlerExitProcess
    \/ HandlerExitSwallowed

\* --------------------------------------------------------- specification
\* The whole program: the loop, signals, the handler.
Next == MainLoop(FullEnv) \/ Signal \/ Handler(FullEnv)

Spec == Init /\ [][Next]_vars

\* The loop with no signal delivered.
NextTick == MainLoop(TickEnv)

SpecTick == Init /\ [][NextTick]_vars

\* The rotation scenario.
NextRot == MainLoop(RotEnv)

SpecRot == Init /\ [][NextRot]_vars

\* The loop with no signal delivered, which goes on as long as it can: each
\* statement of the loop returns or raises.
NextLoop == MainLoop(FullEnv)

SpecLive == Init /\ [][NextLoop]_vars /\ WF_vars(NextLoop)

\* The whole program, which goes on as long as it can: each statement of the
\* loop and of the handler returns or raises.  Nothing obliges a signal to
\* be delivered.
NextSig == MainLoop(FullEnv) \/ Signal \/ Handler(FullEnv)

SpecSig ==
    Init /\ [][NextSig]_vars /\ WF_vars(MainLoop(FullEnv) \/ Handler(FullEnv))

\* The loop while interfaces come and go.
NextNet == MainLoop(NetEnv)

SpecNet == Init /\ [][NextNet]_vars

\* The program from its first statement, with no signal delivered.
NextBoot == Startup(BootEnv) \/ MainLoop(BootEnv)

SpecBoot == InitBoot /\ [][NextBoot]_vars

\* ============================================================ properties

\* Text s drawn in the small font on the line at y.
HasText(cv, y, s) ==
    \E i \in 1..Len(cv) : cv[i].font = "font" /\ cv[i].y = y /\ cv[i].s = s

\* ---------------------------------------------------------------- C3
\* C3: with rotation_interval 3 and four facts in every iteration and no
\* failing iteration, the cursor is 0 in iterations 1-3, becomes 1 in the
\* rotation step that follows exactly 3 completed iterations, 2 in the one
\* that follows 6: after n completed iterations and the rotation step of the
\* next one the cursor is (n div 3) mod 4, and until that step it still has
\* the value of the iteration before.
C3_CursorAdvancesEveryInterval ==
    /\ pc = "rotate" => Len(network_info) = 4
    /\ ticks < MaxTicks =>
        LET n == IF pc \in {"clear", "netinfo", "rotate"}
                 THEN (IF ticks = 0 THEN 0 ELSE ticks - 1)
                 ELSE ticks
        IN  rotation_index = (n \div ROTATION_INTERVAL) % 4

\* Six iterations are done and the seventh has selected its fact.
C3_Witness == ticks = 6 /\ pc = "load" /\ rotation_index = 2

\* ---------------------------------------------------------------- C5
\* What each line shows for what its source returned: the reading, or the
\* default when the output did not parse.
LoadText(o) == IF o.t = "num" THEN Fmt2f(o.v) ELSE "0.00"
TempText(o) == IF o.t = "num" THEN TempStr(o.v) ELSE "0C"
MemText(o) == IF o.t = "num" THEN UsageStr(o.v) ELSE "0/0GB 0%"
DiskText(o) ==
    IF o.t = "num"
    THEN UsageStr(<<RStripG(o.v[1]), RStripG(o.v[2]), o.v[3]>>)
    ELSE "0/0GB 0%"
Raised(o) == o.t = "raise"

C9_WarnIffAtLeastThreshold ==
    icon_keys # NoKeys =>
        /\ icon_keys.load = (IF load_value >= LOAD_WARN
                             THEN "load_warn" ELSE "load_normal")
        /\ icon_keys.temp = (IF temp_value >= TEMP_WARN * 1000
                             THEN "temp_warn" ELSE "temp_normal")
        /\ icon_keys.mem = (IF mem[3] >= MEM_WARN
                            THEN "mem_warn" ELSE "mem_normal")
        /\ icon_keys.disk = (IF disk[3] >= DISK_WARN
                             THEN "disk_warn" ELSE "disk_normal")
        /\ ICONS_AVAILABLE =>
            \E i \in 1..Len(canvas) :
                /\ canvas[i].font = "icon_font" /\ canvas[i].y = 16
                /\ canvas[i].x = 0
                /\ canvas[i].s = ICONS[icon_keys.load]

\* Every value sits exactly on its threshold.
C9_Witness ==
    /\ icon_keys = [load |-> "load_warn", temp |-> "temp_warn",
                    mem |-> "mem_warn", disk |-> "disk_warn"]
    /\ load_value = LOAD_WARN
    /\ temp_value = TEMP_WARN * 1000
    /\ mem[3] = MEM_WARN
    /\ disk[3] = DISK_WARN

\* --------------------------------------------------------------- C10
\* C10: without the icon font no glyph is on the canvas (so in no frame:
\* metric frame or offline screen), draw_icon draws nothing and returns 0
\* for every icon key, and in a composed frame the text of each of the four
\* lines starts at x = 0 (the temperature, the second field of line 2, sits
\* at x = 80).
C10_NoIconsTextAtZero ==
    ~ICONS_AVAILABLE =>
        /\ \A i \in 1..Len(canvas) : ~IsGlyph(canvas[i])
        /\ \A k \in DOMAIN ICONS :
            draw_icon(canvas, ICONS_AVAILABLE, 0, 0, k) = [cv |-> canvas, w |-> 0]
        /\ \A i \in 1..Len(canvas) :
            (canvas[i].font = "font" /\ canvas[i].y \in MetricLineYs) =>
                (canvas[i].x = 0 \/ (canvas[i].y = 16 /\ canvas[i].x = 80))
        /\ (pc \in {"commit", "show_io"} /\ hstack = <<>>) =>
            \A y \in MetricLineYs :
                \E i \in 1..Len(canvas) :
                    canvas[i].font = "font" /\ canvas[i].y = y /\ canvas[i].x = 0

\* A metric frame composed without icons is being committed.
C10_Witness ==
    /\ ~ICONS_AVAILABLE
    /\ pc = "show_io" /\ hstack = <<>>
    /\ buf = "metrics"

\* ---------------------------------------------------------------- C4
\* An iteration has ended in the outer except: a call raised, or the bus.
FailedTick ==
    /\ pc = "sleep"
    /\ (Raised(src.load) \/ Raised(src.temp) \/ Raised(src.mem)
            \/ Raised(src.disk) \/ src.dev = "fail")

\* C4: with no signal delivered the process never ends, whatever raises in
\* an iteration; a failed iteration is followed by the start of the next
\* one, and iterations start again and again.
C4_FailingTickGoesOn ==
    /\ [](pc # "exited" /\ exit_code = -1)
    /\ (FailedTick ~> (pc = "clear"))
    /\ []<>(pc = "clear")

\* An iteration failed on the bus after composing its frame.
C4_Witness == FailedTick /\ src.dev = "fail" /\ buf = "metrics"

C2_NoLoopAfterHandler ==
    (signals > 0 /\ hstack = <<>>) => pc = "exited"

\* ---------------------------------------------------------------- C7
\* Transfers to the panel that have begun and not ended.
Writers ==
    (IF pc = "show_io" THEN 1 ELSE 0)
        + Cardinality({i \in 1..Len(hstack) : hstack[i] = "h_io"})

\* C7: at most one transfer to the panel is in progress at any time.
C7_OneWriter == Writers <= 1

\* ---------------------------------------------------------------- C8
\* C8: every frame committed to the panel is the content of one frame drawn
\* on a cleared canvas: the blank screen, the four metric lines or the
\* offline screen, never a mix.
C8_NoGhosting == display \in {"blank", "metrics", "offline"}

\* ---------------------------------------------------------------- C6
\* get_network_info() always returns the hostname fact first, so the list
\* the rotation step sees is never empty.
FactsNeverEmpty ==
    pc = "rotate" => (Len(network_info) >= 1 /\ network_info[1] = HostFact)

\* --------------------------------------------------------------- C11
\* C11: when the transfer of the offline frame failed in the handler and the
\* handler is over, the process has ended with exit code 0: the handler
\* never leaves the process running.
C11_FailedOfflineCommitStillExits ==
    (offline_commit = "fail" /\ hstack = <<>>) =>
        (pc = "exited" /\ exit_code = 0)

\* --------------------------------------------------------------- C16
\* C16: once a signal has been delivered, wherever the main loop was, the
\* process eventually ends.
C16_SignalLeadsToExit == (signals > 0) ~> (pc = "exited")

\* --------------------------------------------------------------- C12
\* The positions of the render loop.
LoopPcs ==
    {"clear", "netinfo", "rotate", "load", "load_parse", "temp", "temp_parse",
     "mem", "mem_parse", "disk", "disk_parse", "compose", "commit", "show_io",
     "sleep"}

\* C12: when the text font has failed to load the process has ended with a
\* non-zero status and the loop has done nothing, and the loop runs only
\* with the text font loaded; the step that loads the icon font never ends
\* the process, and once the icon font has failed to load ICONS_AVAILABLE
\* is false and the loop, when it runs, draws no glyph.
C12_TextFontFatalIconFontNot ==
    /\ []((font = "unset" /\ pc \notin {"load_config", "load_font"}) =>
            /\ pc = "exited" /\ exit_code # 0 /\ exit_code # -1
            /\ src = NoSrc /\ canvas = <<>> /\ loop_counter = 0)
    /\ [](pc \in LoopPcs => font = "loaded")
    /\ [][pc = "load_icon_font" =>
            (pc' = "startup_clear" /\ exit_code' = -1
                /\ ICONS_AVAILABLE' = (icon_font' = "loaded"))]_vars
    /\ []((icon_font = "None" /\ pc \in LoopPcs) =>
            /\ ~ICONS_AVAILABLE
            /\ \A i \in 1..Len(canvas) : ~IsGlyph(canvas[i]))

\* The icon font failed to load and the loop is committing a frame.
C12_Witness ==
    /\ font = "loaded" /\ icon_font = "None" /\ ~ICONS_AVAILABLE
    /\ pc = "show_io" /\ buf = "metrics"

\* --------------------------------------------------------------- C13
\* C13: the configuration load_config returned has the sections of the
\* defaults; a section the user file does not have is the default section;
\* in a section it has, each key the user gives has the user's value and
\* every other key of the default section its default value, and there is
\* no further key; a missing or unparsable file gives exactly the defaults.
C13_MergePerSection ==
    user_config.t # "unread" =>
        /\ DOMAIN config = DOMAIN default_config
        /\ user_config.t \in {"missing", "unparsable"} =>
            config = default_config
        /\ user_config.t = "json" =>
            \A sec \in DOMAIN default_config :
                IF sec \in DOMAIN user_config.v
                THEN LET u == user_config.v[sec]
                         d == default_config[sec]
                     IN  /\ DOMAIN config[sec] = DOMAIN d \cup DOMAIN u
                         /\ \A k \in DOMAIN u : config[sec][k] = u[k]
                         /\ \A k \in DOMAIN d \ DOMAIN u :
                                config[sec][k] = d[k]
                ELSE config[sec] = default_config[sec]

\* The user gives one key of timing and no thresholds section.
C13_Witness ==
    /\ user_config.t = "json"
    /\ DOMAIN user_config.v = {"timing", "logging"}
    /\ DOMAIN user_config.v["timing"] = {"rotation_interval"}
    /\ config["timing"]["rotation_interval"] = 2
    /\ config["timing"]["refresh_interval"] = 1
    /\ config["thresholds"] = default_config["thresholds"]

\* --------------------------------------------------------------- C14
\* C14 as stated, in its conclusion: an iteration whose rotation step
\* advanced the cursor ends with the counter at 0.
C14_RotatingTickEndsAtZero ==
    (pc = "sleep" /\ src.rot) => loop_counter = 0

\* What a step does to the cursor and the counter, by the position of the
\* loop it is taken at.
CounterSteps ==
    /\ (pc = "rotate") =>
        IF loop_counter >= ROTATION_INTERVAL
        THEN /\ rotation_index' = (rotation_index + 1) % Len(network_info)
             /\ loop_counter' = 0
        ELSE UNCHANGED <<rotation_index, loop_counter>>
    /\ (pc = "show_io") =>
        /\ UNCHANGED rotation_index
        /\ loop_counter' =
                (IF src'.dev = "ok" THEN loop_counter + 1 ELSE loop_counter)
    /\ (pc \notin {"rotate", "show_io"}) =>
        UNCHANGED <<rotation_index, loop_counter>>

\* C14 amended: the rotation step advances the cursor by one modulo the
\* number of facts and resets the counter to 0 when the counter is at least
\* the rotation interval, and otherwise changes neither; the counter is
\* incremented by the end of the commit when the commit succeeds, whether
\* or not the iteration rotated, and nothing else changes the cursor or the
\* counter; so an iteration that rotated ends with the counter at 1 when
\* its commit succeeds and at 0 when it fails after the rotation step.
C14_RotationStepThenIncrement ==
    /\ [][CounterSteps]_vars
    /\ []((pc = "sleep" /\ src.rot) =>
            loop_counter = (IF src.dev = "ok" THEN 1 ELSE 0))

\* An iteration advanced the cursor to the second fact and committed.
C14_Witness ==
    /\ pc = "sleep" /\ src.rot /\ src.dev = "ok"
    /\ rotation_index = 1 /\ loop_counter = 1
    /\ ROTATION_INTERVAL = 2

\* --------------------------------------------------------------- C15
\* C15: whatever the lists of the iterations so far were, the index an
\* iteration selects its fact with is within 0..len-1 of its own list, the
\* fact shown is the one at that index, and no iteration fails at the
\* selection.
C15_SelectionInBounds ==
    /\ (pc \in LoopPcs \ {"clear", "netinfo", "rotate", "sleep"}) =>
            /\ src.sel \in 0..(Len(network_info) - 1)
            /\ src.sel = rotation_index % Len(network_info)
            /\ info = network_info[src.sel + 1]
    /\ pc \in {"commit", "show_io"} => HasText(canvas, 0, info[2])
    /\ pc = "sleep" => src.dev = "ok"

\* The cursor points past the end of a list that has shrunk to the
\* hostname alone.
C15_Witness ==
    /\ pc = "show_io"
    /\ rotation_index = 3
    /\ Len(network_info) = 1
    /\ src.sel = 0 /\ info = HostFact

\* --------------------------------------------------------------- C17
\* C17: when an iteration is over, loop_counter is one more than it was
\* after the rotation step (0 if the step advanced the cursor, the value at
\* the start of the iteration if not) when the commit completed, and
\* exactly that value when the iteration raised, before or in the commit:
\* failed iterations do not count towards the rotation interval.
C17_CountsCommittedTicksOnly ==
    pc = "sleep" =>
        LET base == IF src.rot THEN 0 ELSE src.cnt0
        IN  /\ src.dev = "ok" => loop_counter = base + 1
            /\ src.dev # "ok" => loop_counter = base

\* An iteration that started with the counter at 2 failed on the bus and
\* left it at 2.
C17_Witness ==
    /\ pc = "sleep" /\ src.dev = "fail"
    /\ src.cnt0 = 2 /\ loop_counter = 2

\* --------------------------------------------------------------- C18
\* What a step may do to the frame buffer and the panel: the buffer takes
\* a frame only at the commit, from a canvas with the four lines; the panel
\* changes only when that transfer completes; the step on which an
\* iteration raises before its commit changes neither.
FrameSteps ==
    /\ (buf' # buf) =>
        (pc = "commit" /\ IsMetricsFrame(canvas) /\ buf' = "metrics")
    /\ (display' # display) =>
        (pc = "show_io" /\ src'.dev = "ok" /\ display' = buf)
    /\ (pc' = "sleep" /\ pc \notin {"show_io", "sleep"}) =>
        UNCHANGED <<buf, display>>

\* C18: the loop hands a frame to the panel only once the four lines of the
\* iteration are drawn, and an iteration that raises before its commit
\* leaves the panel with the frame it had.
C18_CommitOnlyWholeFrames ==
    /\ [][FrameSteps]_vars
    /\ [](pc = "show_io" =>
            \A y \in MetricLineYs :
                \E i \in 1..Len(canvas) : canvas[i].font = "font" /\ canvas[i].y = y)
    /\ []((pc = "sleep" /\ src.dev = "none") =>
            (canvas = <<>> /\ display \in {"blank", "metrics"}))

\* After a committed frame, an iteration has raised at the disk reading: the
\* panel still shows the committed frame.
C18_Witness ==
    /\ pc = "sleep" /\ src.dev = "none" /\ Raised(src.disk)
    /\ display = "metrics"

\* --------------------------------------------------------------- C19
\* C19: at the start of every iteration loop_counter is at least 0 and at
\* most max(1, rotation_interval).
C19_CounterBounded ==
    pc = "clear" =>
        /\ 0 <= loop_counter
        /\ loop_counter <=
            (IF ROTATION_INTERVAL > 1 THEN ROTATION_INTERVAL ELSE 1)

\* With rotation_interval 0 an iteration starts with the counter at 1.
C19_Witness ==
    /\ pc = "clear"
    /\ ROTATION_INTERVAL = 0
    /\ loop_counter = 1

====
